---- MODULE Spec2Model ----
(***************************************************************************)
(* Deck readiness and image cache of the App component (src/src/App.tsx).  *)
(*                                                                         *)
(* One action per handler, timer callback, effect pass or promise          *)
(* continuation.  React state is the value the next render sees; the refs  *)
(* (timeoutRef, imagePoolRef, inFlightRef) are mutated in place.  The two  *)
(* awaits of a fetch job (fetch, response.blob) have no statement between  *)
(* them but the status test, so a job has one suspension and one           *)
(* continuation, whose outcome says where it failed, if it did.            *)
(***************************************************************************)
EXTENDS Integers, Sequences, FiniteSets, TLC

\* Largest deck length generateDeck is called with (the app passes TOTAL_CATS).
MaxDeck == 4
\* Largest number of resetDeck calls in a behaviour.
MaxResets == 1
\* Largest number of fetch jobs started in a behaviour, over all its decks.
MaxJobs == 8

INITIAL_READY_COUNT == 3

VARIABLES
    totalCats,      \* TOTAL_CATS, the count every generateDeck call is given
    cats,           \* useState: the deck, a sequence of cards [id, url]
    activeIndex,    \* useState: 0-based index of the current card
    liked,          \* useState: sequence of accepted cards
    swipeDirection, \* useState: "left", "right" or "null"
    isAnimating,    \* useState: a classification is pending
    isDeckReady,    \* useState
    readyCount,     \* useState
    timeoutRef,     \* useRef: <<>> (undefined) or <<timer>>, the pending timer
    imagePool,      \* useRef: Map url -> object URL or remote url
    inFlight,       \* useRef: Set of urls
    deckId,         \* generateDeck: the identifier of the installed deck
    phase,          \* "commit": cats was set, its effect has not run; else "idle"
    mounted,        \* the component is mounted
    cancelled,      \* deck ids whose prefetch effect has cancelled = true
    tasks,          \* fetch jobs suspended at their await
    objectUrls,     \* the browser's store of created, unrevoked object URLs
    revokedTwice,   \* revokeObjectURL was called on a URL no longer in the store
    classified,     \* handleChoice calls that passed the guard on this deck
    failed,         \* history: urls whose job of the active pass took the catch branch
    last            \* history: the step last taken and the state it was taken in

vars == <<totalCats, cats, activeIndex, liked, swipeDirection, isAnimating,
          isDeckReady, readyCount, timeoutRef, imagePool, inFlight, deckId,
          phase, mounted, cancelled, tasks, objectUrls, revokedTwice, classified,
          failed, last>>

controller == <<activeIndex, liked, swipeDirection, isAnimating, timeoutRef, classified>>

Min(a, b) == IF a < b THEN a ELSE b

EmptyMap == [u \in {} |-> u]

Directions == {"left", "right"}

\* fetch resolved ok and blob() resolved; fetch rejected; response.ok false;
\* blob() rejected
Outcomes == {"ok", "networkError", "notOk", "blobError"}

----------------------------------------------------------------------------
\* mutant: every deck reuses the identifier of the first
generateDeckSameId(count, d) ==
    [i \in 1..count |-> [id |-> <<0, i>>, url |-> <<0, i>>]]

(* generateDeck: count cards, ids and urls built from the deck id and the  *)
(* position, so the urls of a deck are pairwise distinct.                  *)
generateDeck(count, d) ==
    [i \in 1..count |-> [id |-> <<d, i>>, url |-> <<d, i>>]]

\* A deck whose last card has the url of its first card: cards sharing a url.
sharedDeck(count, d) ==
    [i \in 1..count |-> [id |-> <<d, i>>, url |-> <<d, IF i = count THEN 1 ELSE i>>]]

----------------------------------------------------------------------------
(* The image cache.                                                        *)

ObjectUrl(t) == <<"blob", <<t.pass, t.index>>>>

RemoteUrl(url) == <<"remote", url>>

\* objectUrl.startsWith('blob:')
IsObjectUrl(value) == value[1] = "blob"

PoolObjectUrls(pool) == { pool[u] : u \in { k \in DOMAIN pool : IsObjectUrl(pool[k]) } }

\* cache.set(url, value)
CacheSet(pool, url, value) == (url :> value) @@ pool

\* cache.has(url)
CacheHas(pool, url) == url \in DOMAIN pool

\* mutant: the pool is not cleared
releasePoolKeepsEntries(pool, flight, store) ==
    [ imagePool  |-> pool,
      inFlight   |-> {},
      objectUrls |-> store \ PoolObjectUrls(pool),
      twice      |-> ~(PoolObjectUrls(pool) \subseteq store) ]

\* mutant: only the entries holding object URLs are removed
releasePoolKeepsFallbacks(pool, flight, store) ==
    [ imagePool  |-> [ u \in { k \in DOMAIN pool : ~IsObjectUrl(pool[k]) } |-> pool[u] ],
      inFlight   |-> {},
      objectUrls |-> store \ PoolObjectUrls(pool),
      twice      |-> ~(PoolObjectUrls(pool) \subseteq store) ]

\* mutant: the pool is cleared without revoking its object URLs
releasePoolNoRevoke(pool, flight, store) ==
    [ imagePool  |-> EmptyMap,
      inFlight   |-> {},
      objectUrls |-> store,
      twice      |-> FALSE ]

\* releasePool: revoke every object URL of the pool, clear the pool and the
\* in-flight set.
releasePool(pool, flight, store) ==
    [ imagePool  |-> EmptyMap,
      inFlight   |-> {},
      objectUrls |-> store \ PoolObjectUrls(pool),
      twice      |-> ~(PoolObjectUrls(pool) \subseteq store) ]

----------------------------------------------------------------------------
(* Readiness.                                                              *)

\* mutant: the threshold is the whole deck
ThresholdWholeDeck(ready, count, n) ==
    IF ~ready /\ n > 0 /\ count >= n THEN TRUE ELSE ready

\* the early-threshold effect, run after every render
ThresholdEffect(ready, count, n) ==
    LET threshold == Min(INITIAL_READY_COUNT, n)
    IN  IF ~ready /\ threshold > 0 /\ count >= threshold THEN TRUE ELSE ready

\* mutant: the cleanup of the prefetch effect never cancels
NeverCancelled(d) == FALSE

\* mutant: the flag starts out true
CancelledFromStart(d) == TRUE

\* the closure variable `cancelled` of the prefetch effect of deck d
Cancelled(d) == d \in cancelled

\* mutant: settlements stop counting at the early threshold
CountSettledToThreshold(count, live) ==
    IF live /\ count < INITIAL_READY_COUNT THEN count + 1 ELSE count

\* mutant: the increment is not guarded by !cancelled
CountSettledUnguarded(count, live) == count + 1

\* setReadyCount((count) => count + 1), guarded by !cancelled
CountSettled(count, live) == IF live THEN count + 1 ELSE count

\* mutant: the response status is not tested
SettledValueIgnoresStatus(t, outcome) ==
    IF outcome \in {"ok", "notOk"} THEN ObjectUrl(t) ELSE RemoteUrl(t.url)

\* the value a settling job stores
SettledValue(t, outcome) ==
    IF outcome = "ok" THEN ObjectUrl(t) ELSE RemoteUrl(t.url)

\* mutant: the url is removed in the try block, not in finally
InFlightDeleteOnSuccess(flight, url, outcome) ==
    IF outcome = "ok" THEN flight \ {url} ELSE flight

\* inFlight.delete(url) in finally
InFlightDelete(flight, url, outcome) == flight \ {url}

\* mutant: the first settlement of a pass makes the deck ready
LoadDeckDoneAtFirst(ready, live, allSettled) ==
    IF live THEN TRUE ELSE ready

\* after Promise.all(fetchJobs): setDeckReady(true), guarded by !cancelled
LoadDeckDone(ready, live, allSettled) ==
    IF live /\ allSettled THEN TRUE ELSE ready

\* mutant: the empty deck has no branch of its own
EffectReadyEmptyIgnored(n, allHit) ==
    IF n > 0 THEN LoadDeckDone(FALSE, TRUE, allHit) ELSE FALSE

\* the end of the prefetch effect: loadDeck() for a non-empty deck, whose
\* Promise.all resolves at once when no job was suspended; setDeckReady(true)
\* for an empty one
EffectReady(n, allHit) ==
    IF n > 0 THEN LoadDeckDone(FALSE, TRUE, allHit) ELSE TRUE

----------------------------------------------------------------------------
(* Derived state.                                                          *)

HasCurrentCat == activeIndex + 1 \in DOMAIN cats

CurrentCat == cats[activeIndex + 1]

\* mutant: off by one
isCompleteStrict == activeIndex > Len(cats)

isComplete == activeIndex >= Len(cats)

State ==
    IF ~isDeckReady THEN "loading"
    ELSE IF ~isComplete THEN "browsing" ELSE "summary"

\* mutant: the guard does not test isDeckReady
CanChooseWhileLoading == HasCurrentCat /\ ~isAnimating

\* mutant: the guard does not test isAnimating
CanChooseWhilePending == HasCurrentCat /\ isDeckReady

\* the guard of handleChoice
CanChoose == HasCurrentCat /\ ~isAnimating /\ isDeckReady

\* a history record: the step taken, the derived state it was taken in and
\* whether a classification was pending then
Step(op) == [op |-> op, from |-> State, pending |-> isAnimating]

----------------------------------------------------------------------------
Init ==
    /\ totalCats \in 0..MaxDeck
    /\ deckId = 0
    /\ cats = generateDeck(totalCats, 0)
    /\ activeIndex = 0
    /\ liked = <<>>
    /\ swipeDirection = "null"
    /\ isAnimating = FALSE
    /\ isDeckReady = FALSE
    /\ readyCount = 0
    /\ timeoutRef = <<>>
    /\ imagePool = EmptyMap
    /\ inFlight = {}
    /\ phase = "commit"
    /\ mounted = TRUE
    /\ cancelled = {}
    /\ tasks = {}
    /\ objectUrls = {}
    /\ revokedTwice = FALSE
    /\ classified = 0
    /\ failed = {}
    /\ last = Step("mount")

(* The prefetch effect of a newly set deck: the cleanup of the previous    *)
(* deck's effect, then the effect body up to the first await of each job.  *)
CommitDeck ==
    /\ phase = "commit"
    /\ phase' = "idle"
    /\ last' = Step("commit")
    /\ cancelled' = IF deckId > 0 THEN cancelled \cup {deckId - 1} ELSE cancelled
    /\ LET hits    == { i \in DOMAIN cats : CacheHas(imagePool, cats[i].url) }
           started == { [pass |-> deckId, index |-> i, url |-> cats[i].url] :
                          i \in (DOMAIN cats) \ hits }
           count   == Cardinality(hits)
           ready   == EffectReady(Len(cats), started = {})
       IN  /\ tasks' = tasks \cup started
           /\ inFlight' = inFlight \cup { t.url : t \in started }
           /\ readyCount' = count
           /\ isDeckReady' = ThresholdEffect(ready, count, Len(cats))
    /\ UNCHANGED <<totalCats, cats, controller, imagePool, deckId, mounted,
                   objectUrls, revokedTwice, failed>>

(* The continuation of one fetch job: try / catch / finally, and the       *)
(* continuation of loadDeck when this was the last job of its pass.        *)
Settle(t, outcome) ==
    /\ phase = "idle"
    /\ t \in tasks
    /\ last' = Step(IF Cancelled(t.pass)
                       THEN (IF outcome = "ok" THEN "lateSettle" ELSE "lateFallback")
                       ELSE (IF outcome = "ok" THEN "settle" ELSE "fallback"))
    /\ LET live       == ~Cancelled(t.pass)
           rest       == tasks \ {t}
           allSettled == ~\E o \in rest : o.pass = t.pass
           count      == CountSettled(readyCount, live)
           ready      == LoadDeckDone(isDeckReady, live, allSettled)
       IN  /\ tasks' = rest
           /\ imagePool' = IF live
                             THEN CacheSet(imagePool, t.url, SettledValue(t, outcome))
                             ELSE imagePool
           /\ objectUrls' = IF live /\ outcome = "ok"
                              THEN objectUrls \cup {ObjectUrl(t)}
                              ELSE objectUrls
           /\ failed' = IF live /\ outcome # "ok" THEN failed \cup {t.url} ELSE failed
           /\ inFlight' = InFlightDelete(inFlight, t.url, outcome)
           /\ readyCount' = count
           /\ isDeckReady' = IF mounted
                               THEN ThresholdEffect(ready, count, Len(cats))
                               ELSE ready
    /\ UNCHANGED <<totalCats, cats, controller, deckId, phase, mounted, cancelled,
                   revokedTwice>>

handleChoice(direction) ==
    /\ mounted
    /\ phase = "idle"
    /\ IF ~CanChoose
         THEN /\ last' = Step("ignored")
              /\ UNCHANGED <<totalCats, cats, controller, isDeckReady, readyCount,
                             imagePool, inFlight, deckId, phase, mounted, cancelled,
                             tasks, objectUrls, revokedTwice, failed>>
         ELSE /\ last' = Step("choice")
              /\ swipeDirection' = direction
              /\ isAnimating' = TRUE
              /\ timeoutRef' = <<[direction |-> direction, chosenCat |-> CurrentCat]>>
              /\ classified' = classified + 1
              /\ UNCHANGED <<totalCats, cats, activeIndex, liked, isDeckReady,
                             readyCount, imagePool, inFlight, deckId, phase, mounted,
                             cancelled, tasks, objectUrls, revokedTwice, failed>>

\* mutant: the pending timer is not cleared
clearTimeoutForgotten(ref) == ref

\* window.clearTimeout(timeoutRef.current), timeoutRef.current = undefined
clearTimeout(ref) == <<>>

\* mutant: the commit appends whatever the direction
CommittedAlways(list, timer) == Append(list, timer.chosenCat)

\* mutant: the accepted card is put in front
CommittedInFront(list, timer) ==
    IF timer.direction = "right" THEN <<timer.chosenCat>> \o list ELSE list

\* the liked list after the commit of a timer
Committed(list, timer) ==
    IF timer.direction = "right" THEN Append(list, timer.chosenCat) ELSE list

(* The callback of the timer handleChoice started.                         *)
TimerFires ==
    /\ phase = "idle"
    /\ timeoutRef # <<>>
    /\ last' = Step("timer")
    /\ activeIndex' = activeIndex + 1
    /\ liked' = Committed(liked, timeoutRef[1])
    /\ swipeDirection' = "null"
    /\ isAnimating' = FALSE
    /\ timeoutRef' = <<>>
    /\ UNCHANGED <<totalCats, cats, isDeckReady, readyCount, imagePool, inFlight,
                   deckId, phase, mounted, cancelled, tasks, objectUrls,
                   revokedTwice, classified, failed>>

(* resetDeck, up to the render that installs the new deck.                 *)
ResetWith(deck) ==
    /\ mounted
    /\ phase = "idle"
    /\ deckId < MaxResets
    /\ (deckId + 2) * totalCats <= MaxJobs
    /\ last' = Step("reset")
    /\ LET released == releasePool(imagePool, inFlight, objectUrls)
       IN  /\ imagePool' = released.imagePool
           /\ inFlight' = released.inFlight
           /\ objectUrls' = released.objectUrls
           /\ revokedTwice' = (revokedTwice \/ released.twice)
    /\ timeoutRef' = clearTimeout(timeoutRef)
    /\ cats' = deck
    /\ deckId' = deckId + 1
    /\ activeIndex' = 0
    /\ liked' = <<>>
    /\ swipeDirection' = "null"
    /\ isAnimating' = FALSE
    /\ isDeckReady' = FALSE
    /\ readyCount' = 0
    /\ classified' = 0
    /\ failed' = {}
    /\ phase' = "commit"
    /\ UNCHANGED <<totalCats, mounted, cancelled, tasks>>

resetDeck == ResetWith(generateDeck(totalCats, deckId + 1))

(* Unmount: the cleanup of the mount effect, then of the prefetch effect.  *)
Unmount ==
    /\ mounted
    /\ phase = "idle"
    /\ mounted' = FALSE
    /\ last' = Step("unmount")
    /\ timeoutRef' = clearTimeout(timeoutRef)
    /\ LET released == releasePool(imagePool, inFlight, objectUrls)
       IN  /\ imagePool' = released.imagePool
           /\ inFlight' = released.inFlight
           /\ objectUrls' = released.objectUrls
           /\ revokedTwice' = (revokedTwice \/ released.twice)
    /\ cancelled' = cancelled \cup {deckId}
    /\ failed' = {}
    /\ UNCHANGED <<totalCats, cats, activeIndex, liked, swipeDirection, isAnimating,
                   isDeckReady, readyCount, deckId, phase, tasks, classified>>

Next ==
    \/ CommitDeck
    \/ \E t \in tasks : \E outcome \in Outcomes : Settle(t, outcome)
    \/ \E direction \in Directions : handleChoice(direction)
    \/ TimerFires
    \/ resetDeck
    \/ Unmount

Spec == Init /\ [][Next]_vars

----------------------------------------------------------------------------
(* Specification over decks whose cards may share a url.                   *)

InitShared ==
    /\ totalCats \in 0..MaxDeck
    /\ deckId = 0
    /\ cats = sharedDeck(totalCats, 0)
    /\ activeIndex = 0
    /\ liked = <<>>
    /\ swipeDirection = "null"
    /\ isAnimating = FALSE
    /\ isDeckReady = FALSE
    /\ readyCount = 0
    /\ timeoutRef = <<>>
    /\ imagePool = EmptyMap
    /\ inFlight = {}
    /\ phase = "commit"
    /\ mounted = TRUE
    /\ cancelled = {}
    /\ tasks = {}
    /\ objectUrls = {}
    /\ revokedTwice = FALSE
    /\ classified = 0
    /\ failed = {}
    /\ last = Step("mount")

resetDeckShared == ResetWith(sharedDeck(totalCats, deckId + 1))

NextShared ==
    \/ CommitDeck
    \/ \E t \in tasks : \E outcome \in Outcomes : Settle(t, outcome)
    \/ \E direction \in Directions : handleChoice(direction)
    \/ TimerFires
    \/ resetDeckShared
    \/ Unmount

SpecShared == InitShared /\ [][NextShared]_vars

----------------------------------------------------------------------------
(* Properties.                                                             *)

N == Len(cats)

\* the prefetch pass of the installed deck is running and not superseded
ActivePass == mounted /\ phase = "idle"

\* the fetch jobs of the installed deck that have not settled
Outstanding == { t \in tasks : t.pass = deckId }

\* the fetch jobs of superseded decks that have not settled
Superseded == { t \in tasks : t.pass < deckId }

TypeOK ==
    /\ totalCats \in 0..MaxDeck
    /\ Len(cats) = totalCats
    /\ activeIndex \in 0..Len(cats)
    /\ readyCount \in 0..Len(cats)
    /\ mounted => (isAnimating = (timeoutRef # <<>>))
    /\ phase \in {"idle", "commit"}

\* C1: once every fetch job of the active pass has settled, by success or by
\* fallback and in any order, isDeckReady is true and readyCount is the deck
\* length, for every deck length from 0 up.
C1_AllSettledReady ==
    (ActivePass /\ Outstanding = {}) => (isDeckReady /\ readyCount = N)

\* a deck longer than the threshold, all of its jobs settled, some by success
\* and some by fallback
C1_Witness ==
    /\ ActivePass /\ Outstanding = {} /\ N > INITIAL_READY_COUNT
    /\ isDeckReady /\ readyCount = N
    /\ \E u, v \in DOMAIN imagePool : IsObjectUrl(imagePool[u]) /\ ~IsObjectUrl(imagePool[v])

\* C2: in the active pass of a non-empty deck isDeckReady is true as soon as
\* readyCount >= min(3, N), and the jobs not yet counted are still outstanding,
\* so they keep settling afterwards.
C2_EarlyThreshold ==
    (ActivePass /\ N > 0) =>
        /\ (readyCount >= Min(INITIAL_READY_COUNT, N)) => isDeckReady
        /\ Cardinality(Outstanding) = N - readyCount

\* a deck of more than 3 cards that is ready with jobs still outstanding
C2_Witness ==
    /\ ActivePass /\ N > INITIAL_READY_COUNT
    /\ isDeckReady /\ readyCount = INITIAL_READY_COUNT /\ readyCount < N
    /\ Outstanding # {}
    /\ last.op = "settle" /\ last.from = "loading"

\* C3: the settlement of a job of a superseded pass, by success or by failure,
\* changes neither readyCount nor isDeckReady nor the cache (and creates no
\* object URL); the job itself runs to completion.
C3_LateSettlementSilent ==
    [][\A t \in Superseded :
          (tasks' = tasks \ {t}) =>
              /\ readyCount' = readyCount
              /\ isDeckReady' = isDeckReady
              /\ imagePool' = imagePool
              /\ objectUrls' = objectUrls]_vars

\* a job of the replaced deck has just settled while the new pass is loading
C3_Witness ==
    /\ ActivePass /\ deckId > 0
    /\ last.op \in {"lateSettle", "lateFallback"}
    /\ Outstanding # {} /\ readyCount < N

Pending == IF isAnimating THEN 1 ELSE 0

\* C4: a handleChoice call made while a classification is pending changes
\* nothing; every accepted call advances activeIndex by exactly one, at its
\* commit, and the Liked list grows by at most one per accepted call.
C4_OneCommitPerChoice ==
    /\ [](mounted => (activeIndex + Pending = classified /\ Len(liked) <= activeIndex))
    /\ [][(isAnimating /\ last'.op \in {"choice", "ignored"}) =>
              (last'.op = "ignored" /\ UNCHANGED controller)]_vars

\* a call was ignored while a classification was pending, after earlier commits
C4_Witness ==
    /\ mounted /\ isAnimating /\ last.op = "ignored" /\ last.from = "browsing"
    /\ activeIndex >= 1 /\ classified = activeIndex + 1

\* the step that clears the pending flag other than by reset or unmount
CommitStep == isAnimating /\ ~isAnimating' /\ deckId' = deckId /\ mounted'

\* C5: the commit is one step, taken after the call: it advances activeIndex by
\* 1, appends the card that was current at the call iff the direction was
\* accept, and clears the pending direction and flag; nothing else changes
\* activeIndex or the Liked list of a deck.
C5_AtomicCommit ==
    [][/\ CommitStep =>
            /\ activeIndex' = activeIndex + 1
            /\ liked' = IF swipeDirection = "right"
                          THEN Append(liked, CurrentCat)
                          ELSE liked
            /\ timeoutRef[1].chosenCat = CurrentCat
            /\ swipeDirection' = "null"
            /\ timeoutRef' = <<>>
       /\ (deckId' = deckId /\ (activeIndex' # activeIndex \/ liked' # liked))
              => CommitStep]_vars

\* accept on card 1 of 3 has been committed
C5_Witness ==
    /\ mounted /\ N = 3 /\ last.op = "timer"
    /\ activeIndex = 1 /\ liked = <<cats[1]>> /\ ~isAnimating /\ swipeDirection = "null"

\* the state resetDeck leaves
Fresh ==
    /\ State = "loading"
    /\ activeIndex = 0 /\ readyCount = 0 /\ liked = <<>>
    /\ ~isAnimating /\ swipeDirection = "null" /\ timeoutRef = <<>>
    /\ imagePool = EmptyMap
    /\ Len(cats) = totalCats
    /\ \A i \in DOMAIN cats : \A t \in Superseded :
           cats[i].url # t.url /\ cats[i].id # <<t.pass, t.index>>

\* C6: a ready deck with activeIndex = N is in summary; resetDeck installs a
\* fresh deck and leaves the state loading, activeIndex 0, readyCount 0, the
\* Liked list empty, the pending flag cleared and the cache empty, and a
\* non-empty deck is still so when its prefetch pass has started.
C6_ResetFromSummary ==
    /\ (isDeckReady /\ activeIndex = N) => State = "summary"
    /\ last.op = "reset" => (phase = "commit" /\ Fresh)
    /\ (last.op = "commit" /\ N > 0) => (Fresh /\ Cardinality(Outstanding) = N)

\* resetDeck was called in summary with jobs of the old deck outstanding
C6_Witness ==
    /\ last.op = "reset" /\ last.from = "summary"
    /\ N > INITIAL_READY_COUNT /\ deckId = 1 /\ Superseded # {}

\* C7: from every reachable cache state releasePool is defined, a second
\* releasePool after it finds the pool and the in-flight set empty, leaves them
\* empty and revokes nothing; no object URL is ever revoked twice.
C7_ReleaseIdempotent ==
    LET once  == releasePool(imagePool, inFlight, objectUrls)
        again == releasePool(once.imagePool, once.inFlight, once.objectUrls)
    IN  /\ once.imagePool = EmptyMap /\ once.inFlight = {}
        /\ again.imagePool = EmptyMap /\ again.inFlight = {}
        /\ again.objectUrls = once.objectUrls
        /\ ~once.twice /\ ~again.twice
        /\ ~revokedTwice
        /\ last.op \in {"reset", "unmount"} => (imagePool = EmptyMap /\ inFlight = {})

\* a cache holding object URLs and fallbacks, with jobs in flight, after an
\* earlier releasePool
C7_Witness ==
    /\ deckId = 1 /\ mounted /\ inFlight # {}
    /\ \E u, v \in DOMAIN imagePool : IsObjectUrl(imagePool[u]) /\ ~IsObjectUrl(imagePool[v])

\* unmount after an explicit reset: releasePool when the pool is already empty
C7_SecondCall ==
    /\ last.op = "unmount" /\ last.from = "loading" /\ deckId = 1
    /\ readyCount = 0 /\ imagePool = EmptyMap /\ inFlight = {}

DeckUrls == { cats[i].url : i \in DOMAIN cats }

\* C8: in the active pass a failed fetch is recorded as a fallback: the value
\* cached for its url is the url itself; each settled item is counted once;
\* every other card is either still outstanding or settled on its own; and if
\* all N fail, readyCount = N, isDeckReady, and every card's value is its url.
C8_FallbackRecorded ==
    ActivePass =>
        /\ \A u \in failed : CacheHas(imagePool, u) /\ imagePool[u] = RemoteUrl(u)
        /\ readyCount = Cardinality(DOMAIN imagePool)
        /\ \A u \in DeckUrls : CacheHas(imagePool, u) # (\E t \in Outstanding : t.url = u)
        /\ \A u \in DOMAIN imagePool \ failed : IsObjectUrl(imagePool[u])
        /\ (N > 0 /\ failed = DeckUrls) =>
               /\ readyCount = N /\ isDeckReady
               /\ \A i \in DOMAIN cats : imagePool[cats[i].url] = RemoteUrl(cats[i].url)

\* a deck of 3 cards all of whose fetches failed
C8_Witness ==
    /\ ActivePass /\ N = 3 /\ failed = DeckUrls
    /\ readyCount = 3 /\ isDeckReady
    /\ \A i \in DOMAIN cats : imagePool[cats[i].url] = RemoteUrl(cats[i].url)

C10_NoneSurvives ==
    /\ ~mounted => objectUrls = {}
    /\ phase = "commit" => objectUrls = {}
    /\ \A o \in objectUrls : o[2][1] = deckId

\* a job of the replaced deck completed successfully after the reset, while
\* the new pass holds object URLs of its own
C10_Witness ==
    /\ mounted /\ deckId = 1 /\ last.op = "lateSettle"
    /\ objectUrls # {}

\* the moves of the derived state between two states of one deck
DeckMoves ==
    {<<"loading", "loading">>, <<"browsing", "browsing">>, <<"summary", "summary">>,
     <<"browsing", "summary">>}
        \cup (IF N > 0 THEN {<<"loading", "browsing">>} ELSE {<<"loading", "summary">>})

\* C11: the derived state moves only loading -> browsing -> summary (loading ->
\* summary for an empty deck) while the deck stays, and a reset leads to
\* loading: a ready deck never returns to loading and a deck in summary never
\* returns to browsing.
C11_StateMachine ==
    [][IF deckId' = deckId
         THEN <<State, State'>> \in DeckMoves
         ELSE State' = "loading"]_vars

\* the second deck has gone through loading and browsing to summary
C11_Witness ==
    /\ mounted /\ deckId = 1 /\ N > INITIAL_READY_COUNT
    /\ State = "summary" /\ last.op = "timer" /\ last.from = "browsing"

----------------------------------------------------------------------------
(* Specification with the scheduling the runtime gives: the effect of a    *)
(* committed render runs, and an outstanding fetch job settles.            *)

SettleSome == \E t \in tasks : \E outcome \in Outcomes : Settle(t, outcome)

SpecLive == Init /\ [][Next]_vars /\ WF_vars(CommitDeck) /\ WF_vars(SettleSome)

\* C12: if the fetch jobs keep settling, every installed deck that is not ready
\* becomes ready, whatever the mixture and order of successes and failures,
\* unless a reset replaces it first (resetDeck leaves phase = "commit") or an
\* unmount tears the component down.
C12_EventuallyReady ==
    (mounted /\ ~isDeckReady) ~> (isDeckReady \/ phase = "commit" \/ ~mounted)

\* the second deck became ready with a failure among its first settlements
C12_Witness ==
    /\ mounted /\ deckId = 1 /\ N > INITIAL_READY_COUNT
    /\ isDeckReady /\ failed # {} /\ Cardinality(failed) < readyCount
    /\ last.op \in {"settle", "fallback"} /\ last.from = "loading"

\* C13: readyCount is between 0 and the deck length and is 0 when a deck has
\* just been installed; while the deck stays it never decreases, and it grows
\* only by one, in a step in which one outstanding job of the deck settles.
C13_ReadyCountMonotone ==
    /\ [](/\ readyCount \in 0..N
          /\ phase = "commit" => readyCount = 0
          /\ ActivePass => readyCount = N - Cardinality(Outstanding))
    /\ [][deckId' = deckId =>
            \/ readyCount' = readyCount
            \/ /\ readyCount' = readyCount + 1
               /\ \E t \in Outstanding : tasks' = tasks \ {t}]_vars

\* the second deck has counted every one of its jobs, and no job of either deck
\* is outstanding
C13_Witness ==
    /\ ActivePass /\ deckId = 1 /\ N > INITIAL_READY_COUNT
    /\ readyCount = N /\ tasks = {} /\ last.op \in {"settle", "fallback"}

\* the urls of the fetch jobs in a set of jobs
UrlsOf(jobs) == { t.url : t \in jobs }

\* C14 as stated: a url is in the in-flight set exactly while a fetch job for
\* it is outstanding, cancelled or not.
C14_ExactlyWhileOutstanding == inFlight = UrlsOf(tasks)

\* C14 amended: a url is in the in-flight set only while a fetch job for it is
\* outstanding, so the set is empty when no job is; the set holds exactly the
\* urls of the outstanding jobs of the active pass, and releasePool leaves it
\* empty on reset and unmount although jobs of the superseded pass are still
\* outstanding; their later settlement removes nothing.
C14_InFlightActivePass ==
    /\ inFlight \subseteq UrlsOf(tasks)
    /\ tasks = {} => inFlight = {}
    /\ ActivePass => inFlight = UrlsOf(Outstanding)
    /\ ~ActivePass => inFlight = {}

\* a job of the active pass has failed and left the set, others are in it,
\* and jobs of the replaced deck are outstanding outside it
C14_Witness ==
    /\ ActivePass /\ deckId = 1 /\ last.op = "fallback"
    /\ inFlight # {} /\ Superseded # {}
    /\ UrlsOf(Superseded) \cap inFlight = {}
    /\ failed \cap inFlight = {} /\ failed # {}

\* the cards of a sequence of cards
Cards(list) == { list[k] : k \in DOMAIN list }

\* C15: resetDeck and unmount clear the pending timer, so its commit never
\* fires: a pending timer is always for the current card of the installed
\* deck of a mounted component; after a reset activeIndex is 0 and the Liked
\* list empty as long as no call was accepted on the new deck; the Liked list
\* holds cards of the installed deck only; nothing is committed after unmount.
C15_ResetCancelsTimer ==
    /\ [](/\ last.op \in {"reset", "unmount"} => timeoutRef = <<>>
          /\ timeoutRef # <<>> =>
                (mounted /\ isAnimating /\ HasCurrentCat
                    /\ timeoutRef[1].chosenCat = CurrentCat)
          /\ classified = 0 => (activeIndex = 0 /\ liked = <<>>)
          /\ Cards(liked) \subseteq Cards(cats))
    /\ [][~mounted => UNCHANGED <<activeIndex, liked>>]_vars

\* resetDeck has just been called with a classification pending
C15_Witness ==
    /\ last.op = "reset" /\ last.pending /\ last.from = "browsing"
    /\ timeoutRef = <<>> /\ ~isAnimating /\ activeIndex = 0 /\ liked = <<>>

\* C16: for a deck of length 0 no fetch job is started (no job, no in-flight
\* url, no cache entry), readyCount stays 0, the deck is ready once its
\* prefetch effect has run, and the derived state is then summary and never
\* browsing.
C16_EmptyDeck ==
    N = 0 =>
        /\ tasks = {} /\ inFlight = {} /\ imagePool = EmptyMap
        /\ readyCount = 0 /\ activeIndex = 0
        /\ State # "browsing"
        /\ phase = "idle" => (isDeckReady /\ State = "summary")
        /\ ~HasCurrentCat

\* the effect of a second empty deck has run
C16_Witness ==
    /\ N = 0 /\ deckId = 1 /\ mounted /\ last.op = "commit"
    /\ isDeckReady /\ State = "summary" /\ readyCount = 0 /\ tasks = {}

\* C17: a handleChoice call made while the deck is loading or in summary is
\* ignored: it starts no timer and changes neither activeIndex, the Liked
\* list, the pending direction nor the pending flag; a call taken up was made
\* in browsing.
C17_OnlyInBrowsing ==
    /\ [][(State # "browsing" /\ last'.op \in {"choice", "ignored"}) =>
              (last'.op = "ignored" /\ UNCHANGED controller)]_vars
    /\ [](last.op = "choice" => (last.from = "browsing" /\ ~last.pending))

\* a call was ignored while the second deck was loading
C17_Witness ==
    /\ mounted /\ deckId = 1 /\ N > 0
    /\ last.op = "ignored" /\ last.from = "loading"
    /\ ~isDeckReady /\ ~isAnimating /\ timeoutRef = <<>> /\ activeIndex = 0

\* a call was ignored in summary
C17_IgnoredInSummary ==
    /\ mounted /\ N > 0 /\ activeIndex = N
    /\ last.op = "ignored" /\ last.from = "summary"
    /\ ~isAnimating /\ timeoutRef = <<>>

\* C18: readiness is never premature and is stable: whenever isDeckReady is
\* true, readyCount >= min(INITIAL_READY_COUNT, length of the deck), and once
\* isDeckReady is true it stays true until the next resetDeck.
C18_ReadyNotPrematureStable ==
    /\ [](isDeckReady => readyCount >= Min(INITIAL_READY_COUNT, N))
    /\ [][(isDeckReady /\ deckId' = deckId) => isDeckReady']_vars
    /\ [][(~isDeckReady /\ isDeckReady') =>
              (deckId' = deckId /\ readyCount' >= Min(INITIAL_READY_COUNT, N))]_vars

\* the second deck, already ready (browsing), stayed ready through the
\* settlement of its last fetch
C18_Witness ==
    /\ mounted /\ deckId = 1 /\ N > INITIAL_READY_COUNT
    /\ isDeckReady /\ readyCount = INITIAL_READY_COUNT + 1
    /\ Outstanding = {}
    /\ last.op \in {"settle", "fallback"} /\ last.from = "browsing"

\* list is a subsequence of deck, in order
RECURSIVE IsSubsequence(_, _)
IsSubsequence(list, deck) ==
    IF list = <<>> THEN TRUE
    ELSE IF deck = <<>> THEN FALSE
    ELSE IF Head(list) = Head(deck)
         THEN IsSubsequence(Tail(list), Tail(deck))
         ELSE IsSubsequence(list, Tail(deck))

NoDuplicates(list) ==
    \A i, j \in DOMAIN list : list[i] = list[j] => i = j

\* C19: 0 <= activeIndex <= length of the deck, and liked is a duplicate-free
\* subsequence, in deck order, of the cards of the current deck at positions
\* below activeIndex, so Len(liked) <= activeIndex.
C19_LikedSubsequence ==
    /\ activeIndex \in 0..N
    /\ NoDuplicates(liked)
    /\ IsSubsequence(liked, SubSeq(cats, 1, activeIndex))
    /\ Len(liked) <= activeIndex

\* the whole second deck was classified: at least two cards liked, in deck
\* order, at least one disliked in front of a liked one
C19_Witness ==
    /\ deckId = 1 /\ N > INITIAL_READY_COUNT /\ activeIndex = N
    /\ Len(liked) >= 2 /\ Len(liked) < activeIndex
    /\ liked[1] # cats[1]
    /\ last.op = "timer"

\* C20: every key of imagePool is the url of a card of the installed deck, and
\* its value is either an object URL that has not been revoked or the key url
\* itself (fallback); a lookup never yields a revoked object URL or an entry
\* of a superseded deck.
C20_CacheOfInstalledDeck ==
    \A u \in DOMAIN imagePool :
        /\ u \in DeckUrls
        /\ \/ imagePool[u] = RemoteUrl(u)
           \/ /\ IsObjectUrl(imagePool[u])
              /\ imagePool[u] \in objectUrls
              /\ imagePool[u][2][1] = deckId

\* the second deck's cache holds both kinds of value while a fetch of the
\* first deck has just settled late without leaving an entry
C20_Witness ==
    /\ mounted /\ deckId = 1 /\ N > INITIAL_READY_COUNT
    /\ last.op \in {"lateSettle", "lateFallback"}
    /\ \E u \in DOMAIN imagePool : IsObjectUrl(imagePool[u])
    /\ \E u \in DOMAIN imagePool : imagePool[u] = RemoteUrl(u)

====
